---- MODULE Spec2Model ----
(***************************************************************************)
(* Model of helpers/inventory_loader.py: the CSV inventory reader          *)
(* (load_device_from_csv), the sample generator (create_sample_csv), the   *)
(* connection factory (connect_to_device) and the MockDevice stand-in.     *)
(*                                                                         *)
(* Text is modelled as a sequence of one-character strings, so that        *)
(* str.strip(), int() and str() are computed character by character.  A    *)
(* file is the sequence of its physical lines (terminators removed); the   *)
(* alphabet holds no quote character, so csv splits a line at its commas.  *)
(***************************************************************************)
EXTENDS Integers, Sequences, FiniteSets, TLC

VARIABLES fs, call, result, PYATS_AVAILABLE, device, history

\* fs       the file at each path: [exists, lines]
\* call     the most recent call of the module's API: its name and arguments
\* result   what that call returned or raised; dropped when the file changes
\* PYATS_AVAILABLE  whether the import of pyATS succeeded (line 20 / 24)
\* device   the object the last successful connect_to_device returned (it
\*          stays the caller's when a later call raises)
\* history  of that object: the mapping it was made from, and which of
\*          connect / disconnect was called on it last
vars == <<fs, call, result, PYATS_AVAILABLE, device, history>>

\* ------------------------------------------------------------------ bounds

\* Most rows the environment puts under a header line.
MaxRows == 2

\* ------------------------------------------------------- Python primitives

\* Python's None where a string was expected (DictReader's restval).
None == <<"<None>">>

\* Whitespace characters of the alphabet (str.strip() and int() skip them).
Whitespace == {" ", "\t"}

Digits == <<"0", "1", "2", "3", "4", "5", "6", "7", "8", "9">>

IsDigit(c) == \E i \in 1..10 : Digits[i] = c

DigitVal(c) == (CHOOSE i \in 1..10 : Digits[i] = c) - 1

RECURSIVE LStrip(_)
LStrip(s) ==
    IF s = <<>> THEN s
    ELSE IF Head(s) \in Whitespace THEN LStrip(Tail(s)) ELSE s

RECURSIVE RStrip(_)
RStrip(s) ==
    IF s = <<>> THEN s
    ELSE IF s[Len(s)] \in Whitespace THEN RStrip(SubSeq(s, 1, Len(s) - 1)) ELSE s

\* str.strip() with no argument.
Strip(s) == RStrip(LStrip(s))

\* Digits with single underscores between them, as int() accepts.
RECURSIVE DigitsOk(_, _)
DigitsOk(s, afterDigit) ==
    IF s = <<>> THEN afterDigit
    ELSE IF IsDigit(Head(s)) THEN DigitsOk(Tail(s), TRUE)
    ELSE IF Head(s) = "_" THEN afterDigit /\ Tail(s) # <<>> /\ IsDigit(Head(Tail(s)))
                               /\ DigitsOk(Tail(s), FALSE)
    ELSE FALSE

RECURSIVE DigitsValue(_, _)
DigitsValue(s, acc) ==
    IF s = <<>> THEN acc
    ELSE IF Head(s) = "_" THEN DigitsValue(Tail(s), acc)
    ELSE DigitsValue(Tail(s), 10 * acc + DigitVal(Head(s)))

\* int(s) for a str s: surrounding whitespace and one sign are accepted.
\* ok = FALSE stands for ValueError("invalid literal for int() ...").
PyInt(s) ==
    LET t == Strip(s)
        signed == t # <<>> /\ Head(t) \in {"+", "-"}
        body == IF signed THEN Tail(t) ELSE t
    IN  IF DigitsOk(body, FALSE)
        THEN [ok |-> TRUE,
              val |-> IF signed /\ Head(t) = "-" THEN 0 - DigitsValue(body, 0)
                      ELSE DigitsValue(body, 0)]
        ELSE [ok |-> FALSE, val |-> 0]

RECURSIVE NatToStr(_)
NatToStr(n) ==
    IF n < 10 THEN <<Digits[n + 1]>>
    ELSE Append(NatToStr(n \div 10), Digits[(n % 10) + 1])

\* str(n) for an int n.
PyStr(n) == IF n < 0 THEN <<"-">> \o NatToStr(0 - n) ELSE NatToStr(n)

\* ------------------------------------------------------------ csv library

\* The cells of a line from position start on: the text up to the next
\* delimiter, then the cells after it.
RECURSIVE SplitCells(_, _)
SplitCells(line, start) ==
    LET commas == {i \in start..Len(line) : line[i] = ","}
    IN  IF commas = {} THEN <<SubSeq(line, start, Len(line))>>
        ELSE LET next == CHOOSE i \in commas : \A j \in commas : i <= j
             IN  <<SubSeq(line, start, next - 1)>> \o SplitCells(line, next + 1)

\* The cells of one line: csv.reader yields [] for an empty line.
csv_reader(line) == IF line = <<>> THEN <<>> ELSE SplitCells(line, 1)

\* One written row: the cells joined by the delimiter.
RECURSIVE JoinCells(_)
JoinCells(cells) ==
    IF cells = <<>> THEN <<>>
    ELSE IF Len(cells) = 1 THEN cells[1]
    ELSE cells[1] \o <<",">> \o JoinCells(Tail(cells))

Min(a, b) == IF a < b THEN a ELSE b

MaxOf(S) == CHOOSE x \in S : \A y \in S : y <= x

\* DictReader.fieldnames is None for a file with no line at all ...
fieldnames_is_None(lines) == lines = <<>>

\* ... and the first line's cells otherwise.
reader_fieldnames(lines) == csv_reader(lines[1])

\* DictReader.__next__: dict(zip(fieldnames, row)), then restval (None) for
\* every field name past the row's end.  Cells past the header's end go
\* under the restkey, which the loader never reads.
DictRow(fieldnames, row) ==
    LET lf == Len(fieldnames)
        lr == Len(row)
    IN  [k \in {fieldnames[i] : i \in 1..lf} |->
            IF \E i \in (lr + 1)..lf : fieldnames[i] = k THEN None
            ELSE row[MaxOf({i \in 1..Min(lf, lr) : fieldnames[i] = k})]]

\* The rows DictReader yields: the lines after the header, empty ones skipped.
RECURSIVE reader_rows(_, _)
reader_rows(fieldnames, lines) ==
    IF lines = <<>> THEN <<>>
    ELSE IF csv_reader(Head(lines)) = <<>> THEN reader_rows(fieldnames, Tail(lines))
    ELSE <<DictRow(fieldnames, csv_reader(Head(lines)))>>
            \o reader_rows(fieldnames, Tail(lines))

\* dict.get(key, default)
Get(d, key, default) == IF key \in DOMAIN d THEN d[key] ELSE default

\* Truth value of a cell: None and '' are false.
Truthy(v) == v # None /\ v # <<>>

\* ------------------------------------------------------------ text literals

f_device_name == <<"d", "e", "v", "i", "c", "e", "_", "n", "a", "m", "e">>

f_hostname == <<"h", "o", "s", "t", "n", "a", "m", "e">>

f_username == <<"u", "s", "e", "r", "n", "a", "m", "e">>

f_password == <<"p", "a", "s", "s", "w", "o", "r", "d">>

f_device_type == <<"d", "e", "v", "i", "c", "e", "_", "t", "y", "p", "e">>

f_protocol == <<"p", "r", "o", "t", "o", "c", "o", "l">>

f_port == <<"p", "o", "r", "t">>

f_timeout == <<"t", "i", "m", "e", "o", "u", "t">>

t_ssh == <<"s", "s", "h">>

t_router1 == <<"r", "o", "u", "t", "e", "r", "1">>

t_switch1 == <<"s", "w", "i", "t", "c", "h", "1">>

t_linux1 == <<"l", "i", "n", "u", "x", "1">>

t_admin == <<"a", "d", "m", "i", "n">>

t_root == <<"r", "o", "o", "t">>

t_cisco_ios == <<"c", "i", "s", "c", "o", "_", "i", "o", "s">>

t_linux == <<"l", "i", "n", "u", "x">>

t_ip_router1 == <<"1", "9", "2", ".", "1", "6", "8", ".", "1", ".", "1">>

t_ip_switch1 == <<"1", "9", "2", ".", "1", "6", "8", ".", "1", ".", "2">>

t_ip_linux1 == <<"1", "9", "2", ".", "1", "6", "8", ".", "1", ".", "1", "0">>

t_Router1 == <<"R", "o", "u", "t", "e", "r", "1">>

t_router == <<"r", "o", "u", "t", "e", "r">>

t_padded_router1 == <<" ", "r", "o", "u", "t", "e", "r", "1", " ">>

t_telnet == <<"t", "e", "l", "n", "e", "t">>

t_pw == <<"p", "w">>

t_ios == <<"i", "o", "s">>

t_op == <<"o", "p">>

t_2x2 == <<"2", "x", "2">>

t_padded_30 == <<" ", "3", "0", " ">>

t_tab == <<"\t">>

t_ip_3 == <<"1", "0", ".", "0", ".", "0", ".", "3">>

t_ip_4 == <<"1", "0", ".", "0", ".", "0", ".", "4">>

\* The text of each dictionary key the code uses.
KeyText ==
    [device_name |-> f_device_name, hostname |-> f_hostname, username |-> f_username,
     password |-> f_password, device_type |-> f_device_type, protocol |-> f_protocol,
     port |-> f_port, timeout |-> f_timeout]

\* ---------------------------------------------------- outcomes of a call

\* An exception: its class, the literal pieces of its message (outermost
\* first) and the values formatted into it.
Exc(exc, msg, args) == [exc |-> exc, msg |-> msg, args |-> args]

Returned(v) == [status |-> "returned", value |-> v]

Raised(e) == [status |-> "raised", error |-> e]

NoResult == [status |-> "none"]

NoCall == [op |-> "none"]

\* 'NoneType' object has no attribute 'strip'
NoneStripError == Exc("AttributeError", <<"'NoneType' object has no attribute 'strip'">>, <<>>)

\* argument of type 'NoneType' is not iterable
NoneIterError == Exc("TypeError", <<"argument of type 'NoneType' is not iterable">>, <<>>)

\* invalid literal for int() with base 10: '<cell>'
IntLiteralError(cell) == Exc("ValueError", <<"invalid literal for int() with base 10: ">>, <<cell>>)

\* --------------------------------------------------------- file system

\* Default CSV file path (DEVICE_INVENTORY_CSV unset).  Paths are opaque and
\* kept as strings; PathNone is None given for csv_path.
DEFAULT_CSV_PATH == "device_inventory.csv"

PathNone == "None"

Paths == {DEFAULT_CSV_PATH}

NoFile == [exists |-> FALSE, lines |-> <<>>]

File(lines) == [exists |-> TRUE, lines |-> lines]

\* ------------------------------------------------ load_device_from_csv

required_fields == <<"device_name", "hostname", "username", "password", "device_type">>

\* field in reader.fieldnames
HasField(fieldnames, field) == \E i \in 1..Len(fieldnames) : fieldnames[i] = KeyText[field]

\* A slip: the scan for missing fields stops at the first one.
missing_fields_first_only(fieldnames) ==
    SubSeq(SelectSeq(required_fields, LAMBDA field : ~HasField(fieldnames, field)), 1, 1)

\* [field for field in required_fields if field not in reader.fieldnames]
missing_fields(fieldnames) ==
    SelectSeq(required_fields, LAMBDA field : ~HasField(fieldnames, field))

\* The text of a list of keys, as formatted into a message.
KeyTexts(keys) == [i \in 1..Len(keys) |-> KeyText[keys[i]]]

\* The dictionary literal of lines 103-112, evaluated entry by entry.
build_device_info(row) ==
    IF \E i \in 1..Len(required_fields) : row[KeyText[required_fields[i]]] = None
    THEN Raised(NoneStripError)
    ELSE IF Get(row, f_protocol, t_ssh) = None
    THEN Raised(NoneStripError)
    ELSE IF Truthy(Get(row, f_port, None)) /\ ~PyInt(row[f_port]).ok
    THEN Raised(IntLiteralError(row[f_port]))
    ELSE IF Truthy(Get(row, f_timeout, None)) /\ ~PyInt(row[f_timeout]).ok
    THEN Raised(IntLiteralError(row[f_timeout]))
    ELSE Returned(
        [device_name |-> Strip(row[f_device_name]),
         hostname    |-> Strip(row[f_hostname]),
         username    |-> Strip(row[f_username]),
         password    |-> Strip(row[f_password]),
         device_type |-> Strip(row[f_device_type]),
         protocol    |-> Strip(Get(row, f_protocol, t_ssh)),
         port        |-> IF Truthy(Get(row, f_port, None)) THEN PyInt(row[f_port]).val ELSE 22,
         timeout     |-> IF Truthy(Get(row, f_timeout, None))
                         THEN PyInt(row[f_timeout]).val ELSE 120])

\* The loop of lines 100-116: the first row whose stripped device_name is
\* the requested one is returned; running out of rows raises ValueError.
RECURSIVE scan_rows(_, _, _)
scan_rows(rows, device_name, csv_path) ==
    IF rows = <<>>
    THEN Raised(Exc("ValueError", <<"Device not found in CSV file: ", csv_path>>,
                    <<device_name>>))
    ELSE IF Head(rows)[f_device_name] = None THEN Raised(NoneStripError)
    ELSE IF Strip(Head(rows)[f_device_name]) = device_name THEN build_device_info(Head(rows))
    ELSE scan_rows(Tail(rows), device_name, csv_path)

\* The body of the try statement, lines 91-116.
try_body(device_name, csv_path, lines) ==
    IF fieldnames_is_None(lines) THEN Raised(NoneIterError)
    ELSE LET fieldnames == reader_fieldnames(lines)
         IN  IF missing_fields(fieldnames) # <<>>
             THEN Raised(Exc("ValueError", <<"CSV file missing required fields: ">>,
                             KeyTexts(missing_fields(fieldnames))))
             ELSE scan_rows(reader_rows(fieldnames, Tail(lines)), device_name, csv_path)

\* The except clauses, lines 118-123: csv.Error and ValueError are raised
\* again as ValueError("Error reading device inventory CSV: ..."), anything
\* else unchanged.
except_clauses(outcome) ==
    IF outcome.status = "raised" /\ outcome.error.exc \in {"csv.Error", "ValueError"}
    THEN Raised(Exc("ValueError",
                    <<"Error reading device inventory CSV: ">> \o outcome.error.msg,
                    outcome.error.args))
    ELSE outcome

load_device_from_csv(device_name, csv_path, files) ==
    LET path == IF csv_path = PathNone THEN DEFAULT_CSV_PATH ELSE csv_path
    IN  IF ~(path \in DOMAIN files /\ files[path].exists)
        THEN Raised(Exc("FileNotFoundError",
                        <<"Device inventory CSV file not found: ", path>>, <<>>))
        ELSE except_clauses(try_body(device_name, path, files[path].lines))

\* --------------------------------------------------- create_sample_csv

sample_data ==
    << [device_name |-> t_router1, hostname |-> t_ip_router1, username |-> t_admin,
        password |-> f_password, device_type |-> t_cisco_ios, protocol |-> t_ssh,
        port |-> 22, timeout |-> 120],
       [device_name |-> t_switch1, hostname |-> t_ip_switch1, username |-> t_admin,
        password |-> f_password, device_type |-> t_cisco_ios, protocol |-> t_ssh,
        port |-> 22, timeout |-> 120],
       [device_name |-> t_linux1, hostname |-> t_ip_linux1, username |-> t_root,
        password |-> f_password, device_type |-> t_linux, protocol |-> t_ssh,
        port |-> 22, timeout |-> 120] >>

sample_fieldnames ==
    <<"device_name", "hostname", "username", "password", "device_type", "protocol",
      "port", "timeout">>

\* The writer's text of one value: str() for the integer fields.
CellText(key, v) == IF key \in {"port", "timeout"} THEN PyStr(v) ELSE v

\* DictWriter.writeheader()
writeheader(fieldnames) == JoinCells(KeyTexts(fieldnames))

\* DictWriter.writerow(rowdict)
writerow(fieldnames, rowdict) ==
    JoinCells([i \in 1..Len(fieldnames) |-> CellText(fieldnames[i], rowdict[fieldnames[i]])])

\* A slip: the file opened with 'a', so the sample lands after what was there.
create_sample_csv_appending(csv_path, files) ==
    [p \in DOMAIN files \cup {csv_path} |->
        IF p = csv_path
        THEN File((IF p \in DOMAIN files THEN files[p].lines ELSE <<>>)
                  \o <<writeheader(sample_fieldnames)>>
                  \o [i \in 1..Len(sample_data) |-> writerow(sample_fieldnames, sample_data[i])])
        ELSE files[p]]

\* The file create_sample_csv leaves at csv_path: opened with 'w', so whatever
\* was there is gone.
create_sample_csv(csv_path, files) ==
    [p \in DOMAIN files \cup {csv_path} |->
        IF p = csv_path
        THEN File(<<writeheader(sample_fieldnames)>>
                  \o [i \in 1..Len(sample_data) |-> writerow(sample_fieldnames, sample_data[i])])
        ELSE files[p]]

\* ---------------------------------------------------------- MockDevice

NoDevice == [cls |-> "none"]

NoHistory == [made_from |-> <<>>, last |-> "none"]

\* MockDevice.__init__(self, name, **kwargs)
MockDevice(name, kwargs) ==
    [cls |-> "MockDevice", name |-> name, connected |-> FALSE, connection_info |-> kwargs]

is_connected(self) == self.connected

connect(self) == [self EXCEPT !.connected = TRUE]

\* A slip: disconnect logs and leaves the flag as it was.
disconnect_flag_kept(self) == self

disconnect(self) == [self EXCEPT !.connected = FALSE]

execute(self, command) == <<"Mock output for command: ", command>>

parse(self, command) == [mock |-> "parsed output", command |-> command]

configure(self, config) == <<"Mock config applied: ", config>>

enable(self) == "Mock enable successful"

\* ---------------------------------------------------- connect_to_device

\* [field for field in required_fields if field not in device_info]
missing_device_info(device_info) ==
    SelectSeq(required_fields, LAMBDA field : field \notin DOMAIN device_info)

\* Device(device_info['device_name'], **device_info): a keyword that names a
\* positional parameter of __init__ is a TypeError.
mock_device(device_info) ==
    IF DOMAIN device_info \cap {"self", "name"} # {}
    THEN Raised(Exc("TypeError",
                    <<"MockDevice.__init__() got multiple values for argument">>, <<>>))
    ELSE Returned(MockDevice(device_info["device_name"], device_info))

\* The testbed-like structure of lines 153-170.
testbed_dict(device_info) ==
    [type |-> device_info["device_type"],
     os |-> IF "os" \in DOMAIN device_info THEN device_info["os"] ELSE t_ios,
     connections |->
        [default |->
            [protocol |-> IF "protocol" \in DOMAIN device_info
                          THEN device_info["protocol"] ELSE t_ssh,
             ip |-> device_info["hostname"],
             port |-> IF "port" \in DOMAIN device_info THEN device_info["port"] ELSE 22,
             username |-> device_info["username"],
             password |-> device_info["password"],
             connection_timeout |-> IF "timeout" \in DOMAIN device_info
                                    THEN device_info["timeout"] ELSE 120]]]

\* loader.load(testbed_dict) and testbed.devices[name]: the backend is not
\* part of this code, so what it does is an input: it raises, or it hands
\* back a device whose connection state is the backend's business.
pyats_device(device_info, backend) ==
    IF ~backend.ok
    THEN Raised(Exc("Exception", <<"backend error">>, <<>>))
    ELSE Returned([cls |-> "Device", name |-> device_info["device_name"],
                   connected |-> backend.connected,
                   connection_info |-> testbed_dict(device_info)])

\* The except clause of lines 179-181.
connection_failed(outcome) ==
    IF outcome.status = "raised"
    THEN Raised(Exc("Exception",
                    <<"Failed to create device connection: ">> \o outcome.error.msg,
                    outcome.error.args))
    ELSE outcome

\* A slip: the check for missing keys made inside the try statement, so that
\* its ValueError is caught and wrapped like a backend failure.
connect_to_device_check_in_try(device_info, pyats_available, backend) ==
    connection_failed(
        IF missing_device_info(device_info) # <<>>
        THEN Raised(Exc("ValueError", <<"Missing required device information: ">>,
                        KeyTexts(missing_device_info(device_info))))
        ELSE IF ~pyats_available THEN mock_device(device_info)
        ELSE pyats_device(device_info, backend))

connect_to_device(device_info, pyats_available, backend) ==
    IF missing_device_info(device_info) # <<>>
    THEN Raised(Exc("ValueError", <<"Missing required device information: ">>,
                    KeyTexts(missing_device_info(device_info))))
    ELSE connection_failed(IF ~pyats_available THEN mock_device(device_info)
                           ELSE pyats_device(device_info, backend))

\* ------------------------------------------------------------- inputs

\* Device names asked for: the sample's three, and two near misses.
RequestNames == {t_router1, t_switch1, t_linux1, t_Router1, t_router}

\* First lines the environment writes: all eight columns, the required five,
\* username missing, device_name second, two columns only, and an empty line.
HeaderSet ==
    { writeheader(sample_fieldnames),
      JoinCells(<<f_device_name, f_hostname, f_username, f_password, f_device_type>>),
      JoinCells(<<f_device_name, f_hostname, f_password, f_device_type, f_port>>),
      JoinCells(<<f_hostname, f_device_name, f_username, f_password, f_device_type,
                  f_protocol>>),
      JoinCells(<<f_hostname, f_port>>),
      <<>> }

\* Later lines the environment writes: two of the sample's, and rows that are
\* padded, short, blank in places, empty, or not numeric where a number is
\* expected.
RowSet ==
    { writerow(sample_fieldnames, sample_data[1]),
      writerow(sample_fieldnames, sample_data[2]),
      JoinCells(<<t_padded_router1, t_ip_3, t_op, t_pw, t_ios, <<>>, <<>>, t_padded_30>>),
      JoinCells(<<t_router1, <<>>, t_admin, t_pw, t_ios, t_telnet, t_2x2>>),
      JoinCells(<<t_switch1, t_ip_4>>),
      t_ip_3,
      JoinCells(<<t_ip_4, t_router1, t_admin, t_pw, t_ios, t_telnet>>),
      JoinCells(<<t_Router1, t_ip_4, t_admin, <<" ">>, t_ios, t_ssh, t_tab, t_padded_30>>),
      <<>> }

\* Mappings handed to connect_to_device besides what load_device_from_csv
\* returned: complete, required keys only, keys missing, empty, and one with
\* a key called name.
DeviceInfos ==
    { sample_data[3],
      [device_name |-> t_router1, hostname |-> t_ip_3, username |-> t_op,
       password |-> t_pw, device_type |-> t_ios],
      [device_name |-> t_router1, hostname |-> t_ip_3, username |-> t_op,
       device_type |-> t_ios, port |-> 22],
      [device_name |-> t_switch1],
      [hostname |-> t_ip_4, protocol |-> t_telnet],
      [device_name |-> t_router1, hostname |-> t_ip_3, username |-> t_op,
       password |-> t_pw, device_type |-> t_ios, name |-> t_Router1] }

Commands == {"show version", "show ip route"}

\* What the backend may do when asked to load a testbed.
Backends == [ok : BOOLEAN, connected : BOOLEAN]

\* ------------------------------------------------------------- actions

\* The environment creates the file, or empties it.
TruncateFile ==
    /\ \E p \in Paths : fs' = [fs EXCEPT ![p] = File(<<>>)]
    /\ fs' # fs
    /\ call' = NoCall
    /\ result' = NoResult
    /\ UNCHANGED <<PYATS_AVAILABLE, device, history>>

\* The environment writes the file anew, with one first line.
WriteHeader ==
    /\ \E p \in Paths, line \in HeaderSet : fs' = [fs EXCEPT ![p] = File(<<line>>)]
    /\ call' = NoCall
    /\ result' = NoResult
    /\ UNCHANGED <<PYATS_AVAILABLE, device, history>>

\* The environment adds a line to a file that has a first line.
AppendRow ==
    /\ \E p \in Paths, line \in RowSet :
          /\ fs[p].exists
          /\ Len(fs[p].lines) >= 1
          /\ Len(fs[p].lines) - 1 < MaxRows
          /\ fs' = [fs EXCEPT ![p] = File(Append(fs[p].lines, line))]
    /\ call' = NoCall
    /\ result' = NoResult
    /\ UNCHANGED <<PYATS_AVAILABLE, device, history>>

\* The environment deletes the file.
RemoveFile ==
    /\ \E p \in Paths : fs[p].exists /\ fs' = [fs EXCEPT ![p] = NoFile]
    /\ call' = NoCall
    /\ result' = NoResult
    /\ UNCHANGED <<PYATS_AVAILABLE, device, history>>

CreateSampleCsv ==
    /\ \E p \in Paths :
          /\ fs' = create_sample_csv(p, fs)
          /\ call' = [op |-> "create_sample_csv", csv_path |-> p]
    /\ result' = NoResult
    /\ UNCHANGED <<PYATS_AVAILABLE, device, history>>

LoadDeviceFromCsv ==
    /\ \E device_name \in RequestNames, csv_path \in Paths \cup {PathNone} :
          /\ call' = [op |-> "load_device_from_csv", device_name |-> device_name,
                      csv_path |-> csv_path]
          /\ result' = load_device_from_csv(device_name, csv_path, fs)
    /\ UNCHANGED <<fs, PYATS_AVAILABLE, device, history>>

\* connect_to_device on one of DeviceInfos.
ConnectToDevice(device_info) ==
    \E backend \in Backends :
       LET outcome == connect_to_device(device_info, PYATS_AVAILABLE, backend)
       IN  /\ call' = [op |-> "connect_to_device", device_info |-> device_info]
           /\ IF outcome.status = "returned"
              THEN /\ result' = [status |-> "returned"]
                   /\ device' = outcome.value
                   /\ history' = [made_from |-> device_info, last |-> "none"]
              ELSE /\ result' = outcome
                   /\ UNCHANGED <<device, history>>
           /\ UNCHANGED <<fs, PYATS_AVAILABLE>>

ConnectToGiven == \E device_info \in DeviceInfos : ConnectToDevice(device_info)

\* connect_to_device(load_device_from_csv(...))
ConnectToLoaded ==
    /\ call.op = "load_device_from_csv"
    /\ result.status = "returned"
    /\ ConnectToDevice(result.value)

\* A call of a method of the stand-in; ret is what it returns.
MockCall(op, self, ret, last) ==
    /\ device.cls = "MockDevice"
    /\ ~PYATS_AVAILABLE
    /\ device' = self
    /\ call' = [op |-> op]
    /\ result' = [status |-> "returned", ret |-> ret]
    /\ history' = [history EXCEPT !.last = last]
    /\ UNCHANGED <<fs, PYATS_AVAILABLE>>

MockConnect == MockCall("connect", connect(device), "None", "connect")

MockDisconnect == MockCall("disconnect", disconnect(device), "None", "disconnect")

MockIsConnected ==
    MockCall("is_connected", device, IF is_connected(device) THEN "True" ELSE "False",
             history.last)

MockExecute ==
    \E command \in Commands : MockCall("execute", device, execute(device, command), history.last)

MockParse ==
    \E command \in Commands : MockCall("parse", device, parse(device, command), history.last)

MockConfigure ==
    \E config \in Commands : MockCall("configure", device, configure(device, config), history.last)

MockEnable == MockCall("enable", device, enable(device), history.last)

\* -------------------------------------------------------- specifications

InitCommon ==
    /\ fs = [p \in Paths |-> NoFile]
    /\ call = NoCall
    /\ result = NoResult
    /\ device = NoDevice
    /\ history = NoHistory

\* The inventory reader and the sample generator over a changing file.
Init == InitCommon /\ PYATS_AVAILABLE = FALSE

Next ==
    \/ TruncateFile
    \/ WriteHeader
    \/ AppendRow
    \/ RemoveFile
    \/ CreateSampleCsv
    \/ LoadDeviceFromCsv

Spec == Init /\ [][Next]_vars

\* The connection factory and the stand-in, fed from the sample inventory.
InitDev == InitCommon /\ PYATS_AVAILABLE \in BOOLEAN

NextDev ==
    \/ CreateSampleCsv
    \/ LoadDeviceFromCsv
    \/ ConnectToGiven
    \/ ConnectToLoaded
    \/ MockConnect
    \/ MockDisconnect
    \/ MockIsConnected
    \/ MockExecute
    \/ MockParse
    \/ MockConfigure
    \/ MockEnable

SpecDev == InitDev /\ [][NextDev]_vars

\* ------------------------------------------------- reading the state

\* The last call was load_device_from_csv, and result is its outcome on the
\* file as it now is (a change of the file drops call and result).
IsLoad == call.op = "load_device_from_csv"

FileExists == fs[DEFAULT_CSV_PATH].exists

FileLines == fs[DEFAULT_CSV_PATH].lines

HasHeaderRow == FileExists /\ Len(FileLines) >= 1

\* The header's column names, in file order.
Columns == csv_reader(FileLines[1])

ColumnIndex(key) == {i \in 1..Len(Columns) : Columns[i] = KeyText[key]}

HasColumn(key) == ColumnIndex(key) # {}

RequiredColumns == {"device_name", "hostname", "username", "password", "device_type"}

MissingColumns == {key \in RequiredColumns : ~HasColumn(key)}

ValidHeader == HasHeaderRow /\ MissingColumns = {}

\* The file's rows: the non-empty lines after the header, as lists of cells.
DataRows == SelectSeq([i \in 1..(Len(FileLines) - 1) |-> csv_reader(FileLines[i + 1])],
                      LAMBDA cells : cells # <<>>)

\* Row r has a cell in column key.
HasCell(r, key) == \E i \in ColumnIndex(key) : i <= Len(DataRows[r])

Cell(r, key) == DataRows[r][CHOOSE i \in ColumnIndex(key) : i <= Len(DataRows[r])]

IsBlank(s) == \A i \in 1..Len(s) : s[i] \in Whitespace

\* t is s with the whitespace at both ends removed.
IsTrimOf(t, s) ==
    /\ t = <<>> \/ (t[1] \notin Whitespace /\ t[Len(t)] \notin Whitespace)
    /\ \E i \in 0..Len(s) :
          /\ i + Len(t) <= Len(s)
          /\ SubSeq(s, i + 1, i + Len(t)) = t
          /\ IsBlank(SubSeq(s, 1, i))
          /\ IsBlank(SubSeq(s, i + Len(t) + 1, Len(s)))

\* Row r is a row for device_name: its device_name cell, trimmed, is exactly it.
NameMatches(r, device_name) ==
    HasCell(r, "device_name") /\ IsTrimOf(device_name, Cell(r, "device_name"))

MatchingRows(device_name) == {r \in 1..Len(DataRows) : NameMatches(r, device_name)}

IsFirstMatch(r, device_name) ==
    r \in MatchingRows(device_name) /\ \A q \in MatchingRows(device_name) : r <= q

\* The cell is decimal digits, possibly padded with whitespace.
IsIntegerText(s) ==
    \E t \in {SubSeq(s, i, j) : i, j \in 1..Len(s)} :
        IsTrimOf(t, s) /\ t # <<>> /\ \A i \in 1..Len(t) : IsDigit(t[i])

\* The value of an optional column in row r is left out: no such column, or
\* an empty cell.
Omitted(r, key) == ~HasColumn(key) \/ (HasCell(r, key) /\ Cell(r, key) = <<>>)

RaisedWith(exc) == result.status = "raised" /\ result.error.exc = exc

\* The message of the exception raised has this literal piece in it.
MessageHas(piece) ==
    result.status = "raised" /\ \E i \in 1..Len(result.error.msg) : result.error.msg[i] = piece

DeviceNotFound == RaisedWith("ValueError") /\ MessageHas("Device not found in CSV file: ")

FileNotFound == RaisedWith("FileNotFoundError")

InvalidFormat ==
    /\ RaisedWith("ValueError")
    /\ \/ MessageHas("CSV file missing required fields: ")
       \/ MessageHas("invalid literal for int() with base 10: ")

\* --------------------------------------------------------------- claims

\* C1: for a file with the five required columns and the first row whose
\* trimmed device_name is the requested name, the call returns a record whose
\* string fields are the row's cells trimmed, whose port and timeout are
\* integers, and in which protocol is "ssh", port 22 and timeout 120 wherever
\* the value is omitted (no such column, or an empty cell).  Stated for rows
\* that have a cell in every column and digits in the numeric cells that are
\* not empty, after rows that all have a device_name cell.
C1_TrimmedRecordWithDefaults ==
    (IsLoad /\ ValidHeader) =>
        \A r \in 1..Len(DataRows) :
            ( /\ IsFirstMatch(r, call.device_name)
              /\ \A q \in 1..r : HasCell(q, "device_name")
              /\ Len(DataRows[r]) >= Len(Columns)
              /\ \A key \in {"port", "timeout"} :
                    HasColumn(key) => (Cell(r, key) = <<>> \/ IsIntegerText(Cell(r, key))) )
            =>
            ( /\ result.status = "returned"
              /\ \A key \in RequiredColumns : IsTrimOf(result.value[key], Cell(r, key))
              /\ IF Omitted(r, "protocol") THEN result.value.protocol = t_ssh
                 ELSE IsTrimOf(result.value.protocol, Cell(r, "protocol"))
              /\ result.value.port \in Int /\ result.value.timeout \in Int
              /\ IF Omitted(r, "port") THEN result.value.port = 22
                 ELSE IsTrimOf(PyStr(result.value.port), Cell(r, "port"))
              /\ IF Omitted(r, "timeout") THEN result.value.timeout = 120
                 ELSE IsTrimOf(PyStr(result.value.timeout), Cell(r, "timeout")) )

\* C2: when the header row lacks a required column, the call fails with
\* ValueError for every requested name, returns no record, and the error
\* lists exactly the required columns that are missing, each once.
C2_MissingColumnsListed ==
    (IsLoad /\ HasHeaderRow /\ MissingColumns # {}) =>
        /\ RaisedWith("ValueError")
        /\ MessageHas("CSV file missing required fields: ")
        /\ {result.error.args[i] : i \in 1..Len(result.error.args)}
              = {KeyText[key] : key \in MissingColumns}
        /\ Len(result.error.args) = Cardinality(MissingColumns)

\* C2's case: username alone is missing, and so is named alone, though a row
\* for the requested device is in the file.
C2_Witness ==
    /\ IsLoad /\ HasHeaderRow
    /\ MissingColumns = {"username"}
    /\ Len(DataRows) >= 1
    /\ \E r \in 1..Len(DataRows) : NameMatches(r, call.device_name)
    /\ RaisedWith("ValueError")
    /\ result.error.args = <<f_username>>

\* C3: the call fails as not found in exactly two situations: the path does
\* not exist (FileNotFoundError), or the headers are valid and no row's
\* trimmed device_name is the requested name; that outcome is not an
\* InvalidFormat one, and a record is returned only for an exact match.
C3_NotFoundExactlyWhenAbsent ==
    IsLoad =>
        /\ (FileNotFound \/ DeviceNotFound)
              <=> (~FileExists \/ (ValidHeader /\ MatchingRows(call.device_name) = {}))
        /\ FileNotFound <=> ~FileExists
        /\ (FileNotFound \/ DeviceNotFound) => ~InvalidFormat
        /\ result.status = "returned" => MatchingRows(call.device_name) # {}

\* C4: every record returned has the five required fields present and not
\* empty; a matching row with an empty or blank required cell makes the call
\* fail.
C4_RequiredFieldsNonEmpty ==
    (IsLoad /\ result.status = "returned") =>
        \A key \in RequiredColumns :
            key \in DOMAIN result.value /\ result.value[key] # <<>>

\* C5: on a file that exists, the call returns a record or fails with
\* ValueError; no other kind of error comes out of it.
C5_OnlyValueErrorEscapes ==
    (IsLoad /\ FileExists) => (result.status = "returned" \/ RaisedWith("ValueError"))

\* The sample inventory as it stands on disk, line by line.
SampleFileText ==
    <<
       <<"d", "e", "v", "i", "c", "e", "_", "n", "a", "m", "e", ",", "h",
         "o", "s", "t", "n", "a", "m", "e", ",", "u", "s", "e", "r", "n",
         "a", "m", "e", ",", "p", "a", "s", "s", "w", "o", "r", "d", ",",
         "d", "e", "v", "i", "c", "e", "_", "t", "y", "p", "e", ",", "p",
         "r", "o", "t", "o", "c", "o", "l", ",", "p", "o", "r", "t", ",",
         "t", "i", "m", "e", "o", "u", "t">>,
       <<"r", "o", "u", "t", "e", "r", "1", ",", "1", "9", "2", ".", "1",
         "6", "8", ".", "1", ".", "1", ",", "a", "d", "m", "i", "n", ",",
         "p", "a", "s", "s", "w", "o", "r", "d", ",", "c", "i", "s", "c",
         "o", "_", "i", "o", "s", ",", "s", "s", "h", ",", "2", "2", ",",
         "1", "2", "0">>,
       <<"s", "w", "i", "t", "c", "h", "1", ",", "1", "9", "2", ".", "1",
         "6", "8", ".", "1", ".", "2", ",", "a", "d", "m", "i", "n", ",",
         "p", "a", "s", "s", "w", "o", "r", "d", ",", "c", "i", "s", "c",
         "o", "_", "i", "o", "s", ",", "s", "s", "h", ",", "2", "2", ",",
         "1", "2", "0">>,
       <<"l", "i", "n", "u", "x", "1", ",", "1", "9", "2", ".", "1", "6",
         "8", ".", "1", ".", "1", "0", ",", "r", "o", "o", "t", ",", "p",
         "a", "s", "s", "w", "o", "r", "d", ",", "l", "i", "n", "u", "x",
         ",", "s", "s", "h", ",", "2", "2", ",", "1", "2", "0">> >>

\* The generator's literal data for a name, as a loaded record.
SampleRecord(device_name) ==
    [device_name |-> device_name,
     hostname |-> IF device_name = t_router1 THEN t_ip_router1
                  ELSE IF device_name = t_switch1 THEN t_ip_switch1 ELSE t_ip_linux1,
     username |-> IF device_name = t_linux1 THEN t_root ELSE t_admin,
     password |-> f_password,
     device_type |-> IF device_name = t_linux1 THEN t_linux ELSE t_cisco_ios,
     protocol |-> t_ssh, port |-> 22, timeout |-> 120]

SampleNames == {t_router1, t_switch1, t_linux1}

\* C6: whatever was at the path, after create_sample_csv the file holds
\* exactly the header and the three generator records; loading router1,
\* switch1 or linux1 from it returns the generator's data for that name, with
\* port 22 and timeout 120 as integers; the three records differ from one
\* another; any other name is not found.
C6_SampleRoundTrip ==
    /\ call.op = "create_sample_csv" => (FileExists /\ FileLines = SampleFileText)
    /\ (IsLoad /\ FileExists /\ FileLines = SampleFileText) =>
          /\ call.device_name \in SampleNames =>
                /\ result = Returned(SampleRecord(call.device_name))
                /\ result.value.port + 1 = 23 /\ result.value.timeout + 1 = 121
                /\ \A other \in SampleNames \ {call.device_name} :
                      result.value # SampleRecord(other)
          /\ call.device_name \notin SampleNames => DeviceNotFound

\* C6's case: linux1 loaded back from the generated file.
C6_Witness ==
    /\ IsLoad /\ FileExists /\ FileLines = SampleFileText
    /\ call.device_name = t_linux1
    /\ result.status = "returned"
    /\ result.value.hostname = t_ip_linux1

\* C7: connect_to_device with a required key absent fails with ValueError
\* listing the absent keys, is not wrapped as a connection failure and makes
\* no device from that mapping; with all five keys present, a failure is the
\* wrapped connection failure and never the missing-information error.
C7_FailureClassifiedByCause ==
    call.op = "connect_to_device" =>
        LET absent == {key \in RequiredColumns : key \notin DOMAIN call.device_info}
        IN  /\ absent # {} =>
                /\ RaisedWith("ValueError")
                /\ result.error.msg = <<"Missing required device information: ">>
                /\ {result.error.args[i] : i \in 1..Len(result.error.args)}
                      = {KeyText[key] : key \in absent}
                /\ history.made_from # call.device_info
            /\ absent = {} =>
                \/ result.status = "returned" /\ history.made_from = call.device_info
                \/ /\ RaisedWith("Exception")
                   /\ result.error.msg[1] = "Failed to create device connection: "

\* C7's case: a mapping without password is refused while the device made
\* earlier stays as it was.
C7_Witness ==
    /\ call.op = "connect_to_device"
    /\ "password" \notin DOMAIN call.device_info
    /\ RaisedWith("ValueError")
    /\ result.error.args = <<f_password>>
    /\ device.cls = "MockDevice"

\* C8: with no backend, the stand-in starts disconnected and is connected
\* exactly when connect was called on it and no disconnect since; its name
\* and carried fields stay those of the mapping it was made from, whatever
\* else is called; is_connected reports the flag.
C8_StandInTwoStates ==
    (~PYATS_AVAILABLE /\ device.cls = "MockDevice") =>
        /\ device.connected <=> history.last = "connect"
        /\ device.connection_info = history.made_from
        /\ device.name = history.made_from.device_name
        /\ call.op = "is_connected" => (result.ret = "True" <=> history.last = "connect")

\* C8's case: execute on a stand-in that was connected, disconnected and
\* connected again.
C8_Witness ==
    /\ device.cls = "MockDevice"
    /\ device.connected
    /\ call.op = "execute"
    /\ history.last = "connect"

\* C9: a device object returned by connect_to_device is connected without
\* the caller calling connect.  Stated for the stand-in, whose state this
\* code decides.
C9_ReturnedDeviceConnected ==
    (call.op = "connect_to_device" /\ result.status = "returned" /\ device.cls = "MockDevice")
        => is_connected(device)

\* The device_name cell among a line's cells; None when the line has none.
DictRowName(cells) ==
    IF \E i \in ColumnIndex("device_name") : i <= Len(cells)
    THEN cells[CHOOSE i \in ColumnIndex("device_name") : i <= Len(cells)]
    ELSE None

\* The file with the header and one row only: line n of the file as it is.
OnlyRow(n) == [p \in Paths |-> File(<<FileLines[1], FileLines[n]>>)]

\* The file cut after line n.
UpToRow(n) == [p \in Paths |-> File(SubSeq(FileLines, 1, n))]

\* C10: with several rows for a name the earliest decides, and the scan
\* stops there: the outcome is that of the file cut after the first matching
\* row, whatever follows it, and that of the file holding that row alone,
\* whatever non-matching rows precede it.
C10_FirstMatchDecides ==
    (IsLoad /\ ValidHeader) =>
        \A n \in 2..Len(FileLines) :
            ( /\ IsTrimOf(call.device_name,
                          DictRowName(csv_reader(FileLines[n])))
              /\ \A m \in 2..(n - 1) :
                    ~IsTrimOf(call.device_name, DictRowName(csv_reader(FileLines[m]))) )
            =>
            ( /\ result = load_device_from_csv(call.device_name, call.csv_path, UpToRow(n))
              /\ result = load_device_from_csv(call.device_name, call.csv_path, OnlyRow(n)) )

====
